---- MODULE Spec2Model ----
(***************************************************************************)
(* ProteinPrep 2.0: the retrieval / cleaning pipeline of proteinprep.py    *)
(* (download_pdb, clean_pdb, the external-tool helpers and main's batch    *)
(* loop) as a state machine.                                               *)
(*                                                                         *)
(* Text handled by the program (file lines, chain ids, residue names,      *)
(* targets, file names) is a sequence of one-character strings, so that    *)
(* slicing, strip() and upper() are computed and not assumed.              *)
(***************************************************************************)
EXTENDS Naturals, Sequences, FiniteSets, TLC

VARIABLES
    pc,         \* position of main(): start, probe, resolve, fetch, clean,
                \* protonate, hydrogenate, convert, finalize, finished, exit1, idle
    args,       \* the invocation's arguments (main's parameters)
    targets,    \* main's local `targets`
    idx,        \* 1-based position of the for-loop over targets
    ready,      \* [obabel, pdb2pqr, probed, installs]: obabel_ready, pdb2pqr_ready
    cur,        \* locals of the current loop iteration
    reports,    \* main's local `reports`
    log,        \* [writes, content]: proteinprep_log.json
    dl,         \* the activation of download_pdb
    cl,         \* the activation of clean_pdb checked on its own
    gui         \* proteinprep_gui.py: window, event queue, worker threads

vars == <<pc, args, targets, idx, ready, cur, reports, log, dl, cl, gui>>

(***************************************************************************)
(* Bounds of the model.                                                    *)
(***************************************************************************)
MaxTargets == 2     \* longest batch
MaxLines == 2       \* longest input file of clean_pdb checked on its own
MaxRetries == 3     \* largest `retries` of download_pdb checked on its own
MaxRuns == 2        \* most runs started from one GUI window
MaxOut == 2         \* most output lines a GUI worker reads in one run

(***************************************************************************)
(* Python string operations on sequences of characters.                    *)
(***************************************************************************)
LowerCase == <<"a","b","c","d","e","f","g","h","i","j","k","l","m",
               "n","o","p","q","r","s","t","u","v","w","x","y","z">>
UpperCase == <<"A","B","C","D","E","F","G","H","I","J","K","L","M",
               "N","O","P","Q","R","S","T","U","V","W","X","Y","Z">>

\* str.upper() on one character
UpperChar(c) ==
    IF \E k \in 1..26 : LowerCase[k] = c
    THEN UpperCase[CHOOSE k \in 1..26 : LowerCase[k] = c]
    ELSE c

\* str.upper()
Upper(s) == [k \in 1..Len(s) |-> UpperChar(s[k])]

IsSpace(c) == c \in {" ", "\n", "\t", "\r"}

\* str.strip()
Strip(s) ==
    IF \A k \in 1..Len(s) : IsSpace(s[k])
    THEN <<>>
    ELSE LET first == CHOOSE a \in 1..Len(s) :
                        /\ ~IsSpace(s[a])
                        /\ \A k \in 1..(a-1) : IsSpace(s[k])
             last  == CHOOSE b \in 1..Len(s) :
                        /\ ~IsSpace(s[b])
                        /\ \A k \in (b+1)..Len(s) : IsSpace(s[k])
         IN SubSeq(s, first, last)

\* s[a:b] with Python's 0-based, end-exclusive, clipped indices
Slice(s, a, b) == SubSeq(s, a + 1, IF b < Len(s) THEN b ELSE Len(s))

\* str.startswith(p)
StartsWith(s, p) == Len(s) >= Len(p) /\ SubSeq(s, 1, Len(p)) = p

\* x in list
InList(x, list) == \E k \in 1..Len(list) : list[k] = x

(***************************************************************************)
(* Optional[...] values: None, or Some(v).                                 *)
(***************************************************************************)
None == [some |-> FALSE, val |-> <<>>]
Some(v) == [some |-> TRUE, val |-> v]
\* Python truth value of an Optional list / string
Truthy(o) == o.some /\ Len(o.val) > 0

(***************************************************************************)
(* clean_pdb                                                               *)
(***************************************************************************)
REC_ATOM == <<"A","T","O","M"," "," ">>
REC_HETATM == <<"H","E","T","A","T","M">>
REC_TER == <<"T","E","R">>
REC_END == <<"E","N","D">>
WaterNames == << <<"H","O","H">>, <<"H","2","O">>, <<"W","A","T">> >>

\* line 84: the record kinds clean_pdb looks at
IsCandidate(line) ==
    \/ StartsWith(line, REC_ATOM)
    \/ StartsWith(line, REC_HETATM)
    \/ StartsWith(line, REC_TER)
    \/ StartsWith(line, REC_END)

\* lines 85-87: the fixed-column fields
RecOf(line) == Strip(Slice(line, 0, 6))
ChainOf(line) == IF Len(line) >= 22 THEN Strip(Slice(line, 21, 22)) ELSE <<>>
ResnameOf(line) == IF Len(line) >= 20 THEN Upper(Strip(Slice(line, 17, 20))) ELSE <<>>

\* a normalisation that falls back to chain A when no chain list is given
NormChainsDefaultA(keep_chains) ==
    IF Truthy(keep_chains)
    THEN Some([k \in 1..Len(keep_chains.val) |-> Upper(Strip(keep_chains.val[k]))])
    ELSE Some(<< <<"A">> >>)

\* lines 77-78: normalisation of the two lists
NormChains(keep_chains) ==
    IF Truthy(keep_chains)
    THEN Some([k \in 1..Len(keep_chains.val) |-> Upper(Strip(keep_chains.val[k]))])
    ELSE None
NormLigands(keep_ligands) ==
    IF Truthy(keep_ligands)
    THEN [k \in 1..Len(keep_ligands.val) |-> Upper(Strip(keep_ligands.val[k]))]
    ELSE <<>>

NoRemoved == [waters |-> 0, hetero_residues |-> 0, skipped_chains |-> 0]

\* the loop body with the water test ahead of the chain test
CleanLineWaterFirst(st, line, remove_waters, remove_hetero, kc, kl) ==
    IF ~IsCandidate(line) THEN st
    ELSE IF remove_waters /\ InList(ResnameOf(line), WaterNames)
    THEN [st EXCEPT !.removed.waters = @ + 1]
    ELSE IF Truthy(kc) /\ ChainOf(line) # <<>> /\ ~InList(Upper(ChainOf(line)), kc.val)
    THEN [st EXCEPT !.removed.skipped_chains = @ + 1]
    ELSE IF remove_hetero /\ RecOf(line) = REC_HETATM /\ ~InList(ResnameOf(line), kl)
    THEN [st EXCEPT !.removed.hetero_residues = @ + 1]
    ELSE [st EXCEPT !.out = Append(@, line), !.wrote_any = TRUE]

\* the loop body with a hetero test that does not look at the record kind
CleanLineHeteroAnyRecord(st, line, remove_waters, remove_hetero, kc, kl) ==
    IF ~IsCandidate(line) THEN st
    ELSE IF Truthy(kc) /\ ChainOf(line) # <<>> /\ ~InList(Upper(ChainOf(line)), kc.val)
    THEN [st EXCEPT !.removed.skipped_chains = @ + 1]
    ELSE IF remove_waters /\ InList(ResnameOf(line), WaterNames)
    THEN [st EXCEPT !.removed.waters = @ + 1]
    ELSE IF remove_hetero /\ ~InList(ResnameOf(line), kl)
    THEN [st EXCEPT !.removed.hetero_residues = @ + 1]
    ELSE [st EXCEPT !.out = Append(@, line), !.wrote_any = TRUE]

\* the loop body writing line[:-1]
CleanLineTruncating(st, line, remove_waters, remove_hetero, kc, kl) ==
    IF ~IsCandidate(line) THEN st
    ELSE IF Truthy(kc) /\ ChainOf(line) # <<>> /\ ~InList(Upper(ChainOf(line)), kc.val)
    THEN [st EXCEPT !.removed.skipped_chains = @ + 1]
    ELSE IF remove_waters /\ InList(ResnameOf(line), WaterNames)
    THEN [st EXCEPT !.removed.waters = @ + 1]
    ELSE IF remove_hetero /\ RecOf(line) = REC_HETATM /\ ~InList(ResnameOf(line), kl)
    THEN [st EXCEPT !.removed.hetero_residues = @ + 1]
    ELSE [st EXCEPT !.out = Append(@, SubSeq(line, 1, Len(line) - 1)),
                    !.wrote_any = TRUE]

\* the loop body counting a dropped line under every predicate that matches
CleanLineCountAll(st, line, remove_waters, remove_hetero, kc, kl) ==
    IF ~IsCandidate(line) THEN st
    ELSE LET byChain == Truthy(kc) /\ ChainOf(line) # <<>>
                          /\ ~InList(Upper(ChainOf(line)), kc.val)
             byWater == remove_waters /\ InList(ResnameOf(line), WaterNames)
             byHetero == remove_hetero /\ RecOf(line) = REC_HETATM
                           /\ ~InList(ResnameOf(line), kl)
         IN IF byChain \/ byWater \/ byHetero
            THEN [st EXCEPT
                    !.removed.skipped_chains = IF byChain THEN @ + 1 ELSE @,
                    !.removed.waters = IF byWater THEN @ + 1 ELSE @,
                    !.removed.hetero_residues = IF byHetero THEN @ + 1 ELSE @]
            ELSE [st EXCEPT !.out = Append(@, line), !.wrote_any = TRUE]

\* lines 83-98: one iteration of the loop over the input lines; st is
\* [out, removed, wrote_any], kc and kl the normalised lists
CleanLine(st, line, remove_waters, remove_hetero, kc, kl) ==
    IF ~IsCandidate(line) THEN st
    ELSE IF Truthy(kc) /\ ChainOf(line) # <<>> /\ ~InList(Upper(ChainOf(line)), kc.val)
    THEN [st EXCEPT !.removed.skipped_chains = @ + 1]
    ELSE IF remove_waters /\ InList(ResnameOf(line), WaterNames)
    THEN [st EXCEPT !.removed.waters = @ + 1]
    ELSE IF remove_hetero /\ RecOf(line) = REC_HETATM /\ ~InList(ResnameOf(line), kl)
    THEN [st EXCEPT !.removed.hetero_residues = @ + 1]
    ELSE [st EXCEPT !.out = Append(@, line), !.wrote_any = TRUE]

RECURSIVE CleanLoop(_, _, _, _, _, _, _)
CleanLoop(st, lines, k, remove_waters, remove_hetero, kc, kl) ==
    IF k > Len(lines) THEN st
    ELSE CleanLoop(CleanLine(st, lines[k], remove_waters, remove_hetero, kc, kl),
                   lines, k + 1, remove_waters, remove_hetero, kc, kl)

\* clean_pdb without the check of wrote_any
clean_pdb_NoGuard(lines, remove_waters, remove_hetero, keep_chains, keep_ligands) ==
    LET st == CleanLoop([out |-> <<>>, removed |-> NoRemoved, wrote_any |-> FALSE],
                        lines, 1, remove_waters, remove_hetero,
                        NormChains(keep_chains), NormLigands(keep_ligands))
    IN [raised |-> FALSE, out |-> st.out, removed |-> st.removed]

\* clean_pdb as a whole: [raised, out, removed]; `out` is what is in the
\* output file when the function ends, also when it raises
clean_pdb(lines, remove_waters, remove_hetero, keep_chains, keep_ligands) ==
    LET st == CleanLoop([out |-> <<>>, removed |-> NoRemoved, wrote_any |-> FALSE],
                        lines, 1, remove_waters, remove_hetero,
                        NormChains(keep_chains), NormLigands(keep_ligands))
    IN [raised |-> ~st.wrote_any, out |-> st.out, removed |-> st.removed]

(***************************************************************************)
(* Input lines of the fixed-column format.                                 *)
(***************************************************************************)
\* columns 7-17: serial, blank, atom name, altLoc
Mid(d) == <<" "," "," "," ",d," "," ","C","A"," "," ">>
\* columns 23..: residue number and the line end
LineTail == <<" "," "," ","1","\n">>
AtomLine(rec, d, res, ch) == rec \o Mid(d) \o res \o <<" ">> \o <<ch>> \o LineTail

L_ALA_A  == AtomLine(REC_ATOM,   "1", <<"A","L","A">>, "A")
L_GLY_b  == AtomLine(REC_ATOM,   "2", <<"G","L","Y">>, "b")
L_HOH_A  == AtomLine(REC_HETATM, "3", <<"H","O","H">>, "A")
L_WAT_b  == AtomLine(REC_ATOM,   "4", <<"W","A","T">>, "b")
L_HEM_A  == AtomLine(REC_HETATM, "5", <<"H","E","M">>, "A")
L_ZN_b   == AtomLine(REC_HETATM, "6", <<" ","Z","N">>, "b")
L_ALA_   == AtomLine(REC_ATOM,   "7", <<"A","L","A">>, " ")
L_TER_A  == AtomLine(<<"T","E","R"," "," "," ">>, "8", <<"A","L","A">>, "A")
L_TER    == <<"T","E","R","\n">>
L_END    == <<"E","N","D","\n">>
L_REMARK == <<"R","E","M","A","R","K"," ","2","\n">>

LineSet == {L_ALA_A, L_GLY_b, L_HOH_A, L_WAT_b, L_HEM_A, L_ZN_b, L_ALA_,
            L_TER_A, L_TER, L_END, L_REMARK}

SeqsUpTo(S, n) == UNION {[1..m -> S] : m \in 0..n}

ChainLists == {None, Some(<< <<"A">> >>), Some(<< <<" ","b">>, <<"C">> >>)}
LigandLists == {None, Some(<< <<"H","E","M">> >>), Some(<< <<"z","n">> >>)}

(***************************************************************************)
(* Paths (os.path) and the targets of the model.                           *)
(***************************************************************************)
RECURSIVE LastIndex(_, _, _)
\* the last position <= k of character c in s, 0 when there is none
LastIndex(s, c, k) ==
    IF k = 0 THEN 0 ELSE IF s[k] = c THEN k ELSE LastIndex(s, c, k - 1)

\* os.path.basename
Basename(p) == SubSeq(p, LastIndex(p, "/", Len(p)) + 1, Len(p))

\* os.path.splitext(name)[0], name without directory part
SplitextRoot(name) ==
    LET d == LastIndex(name, ".", Len(name))
    IN IF d > 0 /\ \E k \in 1..(d-1) : name[k] # "."
       THEN SubSeq(name, 1, d - 1)
       ELSE name

\* os.path.join(a, b)
Join(a, b) ==
    IF Len(b) > 0 /\ b[1] = "/" THEN b
    ELSE IF Len(a) = 0 \/ a[Len(a)] = "/" THEN a \o b
    ELSE a \o <<"/">> \o b

RECURSIVE Split(_, _)
\* str.split(sep) for a one-character separator
Split(s, sep) ==
    IF \A k \in 1..Len(s) : s[k] # sep THEN <<s>>
    ELSE LET j == CHOOSE k \in 1..Len(s) :
                     s[k] = sep /\ \A m \in 1..(k-1) : s[m] # sep
         IN <<SubSeq(s, 1, j - 1)>> \o Split(SubSeq(s, j + 1, Len(s)), sep)

EXT_PDB == <<".","p","d","b">>
SFX_CLEAN == <<"_","c","l","e","a","n",".","p","d","b">>
SFX_FINAL == <<"_","f","i","n","a","l",".","p","d","b">>
SFX_PDBQT == <<"_","f","i","n","a","l",".","p","d","b","q","t">>

T_ID == <<"1","a","b","c">>                                  \* an identifier
T_PATH == <<"i","n","/","2","x","y","z",".","p","d","b">>    \* a local file
OUT_DIR == <<"o","u","t">>

\* the files that exist when the run starts (os.path.exists)
ExistingPaths == {T_PATH}
\* a test that takes every target for a local file
ExistsAlways(t) == TRUE
\* line 171: os.path.exists(t)
Exists(t) == t \in ExistingPaths
TargetSet == {T_ID, T_PATH}

\* structure files: what a local file or a download may hold
F_PROTEIN == <<L_ALA_A, L_HOH_A, L_HEM_A, L_END>>
F_WATHET == <<L_HOH_A, L_ZN_b>>
FileSet == {F_PROTEIN, F_WATHET}

(***************************************************************************)
(* download_pdb                                                            *)
(***************************************************************************)
DefaultRetries == 3

DlIdle == [status |-> "idle", pdb_id |-> <<>>, url |-> <<>>, out_path |-> <<>>,
           retries |-> 0, attempt |-> 0, calls |-> 0, sleeps |-> 0,
           writes |-> 0, content |-> <<>>]

\* lines 54-56: the call; the loop variable starts at 1
DownloadCall(pdb_id, out_path, retries) ==
    [DlIdle EXCEPT !.status = "running", !.pdb_id = pdb_id, !.url = Upper(pdb_id),
                   !.out_path = out_path, !.retries = retries, !.attempt = 1]

\* lines 58-67: one pass of the retry loop; ok is whether requests.get and
\* raise_for_status succeed, content the bytes of the response
DownloadAttempt(d, ok, content) ==
    IF ok
    THEN [d EXCEPT !.calls = @ + 1, !.writes = @ + 1, !.content = content,
                   !.status = "returned"]
    ELSE [d EXCEPT !.calls = @ + 1, !.sleeps = @ + 1, !.attempt = @ + 1]

\* line 68: the loop ended without a return
DownloadExhausted(d) == [d EXCEPT !.status = "raised"]

\* a retry loop that runs once too often
DownloadLoopOnOffByOne(d) == d.attempt <= d.retries + 1

\* line 57: range(1, retries + 1)
DownloadLoopOn(d) == d.attempt <= d.retries

\* the successors of a running activation
DownloadNext(d) ==
    IF DownloadLoopOn(d)
    THEN {DownloadAttempt(d, ok, content) : ok \in BOOLEAN, content \in FileSet}
    ELSE {DownloadExhausted(d)}

ERR_DOWNLOAD == "Failed to download after retries"
ERR_EMPTY == "No ATOM/HETATM records written"
ERR_OBABEL == "OpenBabel CLI not found."
ERR_PDB2PQR == "PDB2PQR CLI not found."
SKIP_OBABEL == "OpenBabel not available"
SKIP_PDB2PQR == "PDB2PQR not available"

(***************************************************************************)
(* The external-tool helpers.  exe is what which() finds when the helper   *)
(* runs (None: nothing), rc the exit code of the process.                  *)
(***************************************************************************)
Captured(rc) == IF rc = 0 THEN "" ELSE "tool error text"

\* lines 104-110
add_hydrogens_with_obabel(exe, rc, input_file, output_file) ==
    IF ~exe.some
    THEN [raised |-> TRUE, error |-> ERR_OBABEL]
    ELSE [raised |-> FALSE,
          res |-> [cmd |-> <<exe.val, input_file, "-O", output_file, "-h">>,
                   rc |-> rc, output |-> Captured(rc)]]

\* lines 112-118
convert_to_pdbqt_with_obabel(exe, rc, input_file, output_file) ==
    IF ~exe.some
    THEN [raised |-> TRUE, error |-> ERR_OBABEL]
    ELSE [raised |-> FALSE,
          res |-> [cmd |-> <<exe.val, input_file, "-O", output_file>>,
                   rc |-> rc, output |-> Captured(rc)]]

\* lines 121-126
protonate_with_pdb2pqr(exe, rc, input_file, output_file, ph) ==
    IF ~exe.some
    THEN [raised |-> TRUE, error |-> ERR_PDB2PQR]
    ELSE [raised |-> FALSE,
          res |-> [cmd |-> <<"pdb2pqr", "--ff=PARSE", ph, input_file, output_file>>,
                   rc |-> rc, output |-> Captured(rc)]]

ObabelExes == {None, Some("obabel")}
Pdb2pqrExes == {None, Some("pdb2pqr")}
ExitCodes == {0, 1}

(***************************************************************************)
(* Python dicts: functions whose domain is the set of keys present.        *)
(***************************************************************************)
EmptyDict == [k \in {} |-> 0]
SetKey(d, key, v) == [k \in DOMAIN d \cup {key} |-> IF k = key THEN v ELSE d[k]]
Has(d, key) == key \in DOMAIN d

(***************************************************************************)
(* main: the arguments of an invocation.                                   *)
(***************************************************************************)
PH == "7.4"
BATCH_PATH == <<"b",".","t","x","t">>

ARG_CHAINS == <<"a",","," ","C">>      \* --keep-chains "a, C"
ARG_LIGANDS == <<"h","e","m">>          \* --keep-ligands hem

\* the filter options of the invocations of the model: the defaults, both
\* removals off, and the defaults with a chain list and a ligand list
FilterArgs ==
    {[remove_waters |-> TRUE, remove_hetero |-> TRUE,
      keep_chains |-> None, keep_ligands |-> None],
     [remove_waters |-> FALSE, remove_hetero |-> FALSE,
      keep_chains |-> None, keep_ligands |-> None],
     [remove_waters |-> TRUE, remove_hetero |-> TRUE,
      keep_chains |-> Some(ARG_CHAINS), keep_ligands |-> Some(ARG_LIGANDS)]}

MkArgs(pdb, f, add_hydrogens, protonate, auto_pdbqt, batch_file) ==
    [pdb |-> pdb, out_dir |-> OUT_DIR, remove_waters |-> f.remove_waters,
     remove_hetero |-> f.remove_hetero, keep_chains |-> f.keep_chains,
     keep_ligands |-> f.keep_ligands, add_hydrogens |-> add_hydrogens,
     protonate |-> protonate, auto_pdbqt |-> auto_pdbqt,
     batch_file |-> batch_file, ph |-> PH]

\* a single target, or a batch file (pdb is then not read)
ArgSet ==
    {MkArgs(t, f, h, p, q, None) :
        t \in TargetSet, f \in FilterArgs, h \in BOOLEAN, p \in BOOLEAN, q \in BOOLEAN}
    \cup
    {MkArgs(T_ID, f, h, p, q, Some(BATCH_PATH)) :
        f \in FilterArgs, h \in BOOLEAN, p \in BOOLEAN, q \in BOOLEAN}

\* the lines a batch file may hold: an identifier, a path, a blank line
RawBatchLines == {T_ID \o <<"\n">>, <<" ">> \o T_PATH \o <<"\n">>, <<" ","\n">>}
BatchFiles == SeqsUpTo(RawBatchLines, MaxTargets)

\* line 151: [ln.strip() for ln in f if ln.strip()]
ParseBatch(raw) ==
    LET NonBlank(ln) == Strip(ln) # <<>>
        kept == SelectSeq(raw, NonBlank)
    IN [k \in 1..Len(kept) |-> Strip(kept[k])]

\* lines 155-156: the comma lists
CommaList(opt) ==
    IF Truthy(opt)
    THEN LET parts == Split(opt.val, ",")
         IN Some([k \in 1..Len(parts) |-> Upper(Strip(parts[k]))])
    ELSE None
keep_chain_list == CommaList(args.keep_chains)
keep_lig_list == CommaList(args.keep_ligands)

CurIdle == [label |-> <<>>, fetched |-> <<>>, cleaned |-> <<>>, src |-> <<>>,
            out |-> <<>>, report |-> EmptyDict, processed |-> <<>>,
            invoked |-> {}, cleanRan |-> FALSE]
ReadyIdle == [obabel |-> FALSE, pdb2pqr |-> FALSE, probed |-> FALSE, installs |-> 0]
LogIdle == [writes |-> 0, content |-> <<>>]
ClIdle == [state |-> "idle"]
\* proteinprep_gui.py before the window is there
GuiIdle == [open |-> FALSE, runEnabled |-> FALSE, runs |-> 0, values |-> <<>>,
            argv |-> <<>>, worker |-> "none", outs |-> 0, procs |-> {},
            exits |-> {}, queue |-> <<>>, emitted |-> <<>>, handled |-> <<>>,
            popup |-> ""]

Init ==
    /\ pc = "start"
    /\ args \in ArgSet
    /\ targets = <<>>
    /\ idx = 1
    /\ ready = ReadyIdle
    /\ cur = CurIdle
    /\ reports = <<>>
    /\ log = LogIdle
    /\ dl = DlIdle
    /\ cl = ClIdle
    /\ gui = GuiIdle

(***************************************************************************)
(* main, lines 143-156: the target list.                                   *)
(***************************************************************************)
\* a batch-file check that comes after the probes
ReadTargetsProbesFirst ==
    /\ pc = "start"
    /\ IF Truthy(args.batch_file)
       THEN \E exists \in BOOLEAN :
              IF ~exists
              THEN /\ pc' = "exit1" /\ targets' = targets
                   /\ ready' = [ready EXCEPT !.probed = TRUE]
              ELSE \E raw \in BatchFiles :
                     targets' = ParseBatch(raw) /\ pc' = "probe" /\ ready' = ready
       ELSE targets' = <<args.pdb>> /\ pc' = "probe" /\ ready' = ready
    /\ UNCHANGED <<args, idx, cur, reports, log, dl, cl, gui>>

ReadTargets ==
    /\ pc = "start"
    /\ IF Truthy(args.batch_file)
       THEN \E exists \in BOOLEAN :
              IF ~exists
              THEN pc' = "exit1" /\ targets' = targets
              ELSE \E raw \in BatchFiles :
                     targets' = ParseBatch(raw) /\ pc' = "probe"
       ELSE targets' = <<args.pdb>> /\ pc' = "probe"
    /\ UNCHANGED <<args, idx, ready, cur, reports, log, dl, cl, gui>>

(***************************************************************************)
(* main, lines 158-166: the probes and the install attempt.  ob and pq are *)
(* what the probes find, inst what the probe after the install finds.      *)
(***************************************************************************)
NeedsInstall(ob) == (args.add_hydrogens \/ args.auto_pdbqt) /\ ~ob

Probe ==
    /\ pc = "probe"
    /\ \E ob \in BOOLEAN, pq \in BOOLEAN, inst \in BOOLEAN :
         ready' = [obabel |-> IF NeedsInstall(ob) THEN inst ELSE ob,
                   pdb2pqr |-> pq, probed |-> TRUE,
                   installs |-> IF NeedsInstall(ob) THEN 1 ELSE 0]
    /\ reports' = <<>>
    /\ idx' = 1
    /\ pc' = "resolve"
    /\ UNCHANGED <<args, targets, cur, log, dl, cl, gui>>

(***************************************************************************)
(* main, lines 168-237: one target.                                        *)
(***************************************************************************)
\* a handler that ends the run instead of going on with the next target
FailAborts(error) ==
    /\ reports' = Append(reports,
                         SetKey(SetKey(EmptyDict, "input", targets[idx]), "error", error))
    /\ idx' = idx + 1
    /\ pc' = "finished"

\* lines 235-237: the handler of the loop body's try
Fail(error) ==
    /\ reports' = Append(reports,
                         SetKey(SetKey(EmptyDict, "input", targets[idx]), "error", error))
    /\ idx' = idx + 1
    /\ pc' = "resolve"

\* lines 232-233
Done(report) ==
    /\ reports' = Append(reports, report)
    /\ idx' = idx + 1
    /\ pc' = "resolve"

\* lines 171-176: label and source of target t
LabelOf(t) == IF Exists(t) THEN SplitextRoot(Basename(t)) ELSE Upper(t)
FetchedOf(t) == IF Exists(t) THEN t ELSE Join(args.out_dir, LabelOf(t) \o EXT_PDB)

\* lines 170-178, up to the call of download_pdb
Resolve ==
    /\ pc = "resolve"
    /\ idx <= Len(targets)
    /\ LET t == targets[idx]
       IN /\ cur' = [CurIdle EXCEPT !.label = LabelOf(t), !.fetched = FetchedOf(t)]
          /\ IF Exists(t)
             THEN dl' = DlIdle /\ pc' = "clean"
             ELSE /\ dl' = DownloadCall(LabelOf(t), FetchedOf(t), DefaultRetries)
                  /\ pc' = "fetch"
    /\ UNCHANGED <<args, targets, idx, ready, reports, log, cl, gui>>

\* line 178: download_pdb runs; its exception ends the iteration
Fetch ==
    /\ pc = "fetch"
    /\ dl.status = "running"
    /\ \E d \in DownloadNext(dl) :
         /\ dl' = d
         /\ IF d.status = "raised"
            THEN Fail(ERR_DOWNLOAD)
            ELSE /\ pc' = IF d.status = "returned" THEN "clean" ELSE "fetch"
                 /\ UNCHANGED <<reports, idx>>
    /\ UNCHANGED <<args, targets, ready, cur, log, cl, gui>>

\* what open(fetched) reads: the download, or the local file
SourceChoices == IF dl.status = "returned" THEN {dl.content} ELSE FileSet

\* lines 181-186
Clean ==
    /\ pc = "clean"
    /\ \E src \in SourceChoices :
         LET cleaned == Join(args.out_dir, cur.label \o SFX_CLEAN)
             report == SetKey(SetKey(SetKey(EmptyDict, "input", targets[idx]),
                                     "fetched", cur.fetched), "cleaned", cleaned)
             r == clean_pdb(src, args.remove_waters, args.remove_hetero,
                            keep_chain_list, keep_lig_list)
         IN IF r.raised
            THEN /\ cur' = [cur EXCEPT !.src = src, !.cleaned = cleaned,
                                       !.out = r.out, !.cleanRan = TRUE]
                 /\ Fail(ERR_EMPTY)
            ELSE /\ cur' = [cur EXCEPT !.src = src, !.cleaned = cleaned,
                                       !.out = r.out, !.cleanRan = TRUE,
                                       !.report = SetKey(report, "removed", r.removed),
                                       !.processed = cleaned]
                 /\ pc' = "protonate"
                 /\ UNCHANGED <<reports, idx>>
    /\ UNCHANGED <<args, targets, ready, log, dl, cl, gui>>

\* a pointer that moves to the stage's output whatever the exit code
AdvanceAlways(processed, res, output_file) == output_file

\* lines 195-196 and 210-211: the "processed" pointer after a stage
Advance(processed, res, output_file) == IF res.rc = 0 THEN output_file ELSE processed

\* the record of a process the iteration ran
Invocation(tool, input_file, output_file) ==
    [tool |-> tool, input |-> input_file, output |-> output_file]

\* lines 189-201
Protonate ==
    /\ pc = "protonate"
    /\ IF args.protonate
       THEN IF ready.pdb2pqr
            THEN \E exe \in Pdb2pqrExes, rc \in ExitCodes :
                   LET proton_file == Join(args.out_dir, cur.label \o SFX_FINAL)
                       r == protonate_with_pdb2pqr(exe, rc, cur.processed,
                                                   proton_file, args.ph)
                   IN IF r.raised
                      THEN Fail(r.error) /\ cur' = cur
                      ELSE /\ cur' = [cur EXCEPT
                                 !.report = SetKey(@, "protonate", r.res),
                                 !.processed = Advance(@, r.res, proton_file),
                                 !.invoked = @ \cup {Invocation("pdb2pqr",
                                                     cur.processed, proton_file)}]
                           /\ pc' = "hydrogenate"
                           /\ UNCHANGED <<reports, idx>>
            ELSE /\ cur' = [cur EXCEPT
                              !.report = SetKey(@, "protonate_skipped", SKIP_PDB2PQR)]
                 /\ pc' = "hydrogenate"
                 /\ UNCHANGED <<reports, idx>>
       ELSE /\ pc' = "hydrogenate"
            /\ UNCHANGED <<cur, reports, idx>>
    /\ UNCHANGED <<args, targets, ready, log, dl, cl, gui>>

\* line 204: the guard of the hydrogen stage
HydrogenStageOn == args.add_hydrogens /\ ~args.protonate

\* lines 204-216
Hydrogenate ==
    /\ pc = "hydrogenate"
    /\ IF HydrogenStageOn
       THEN IF ready.obabel
            THEN \E exe \in ObabelExes, rc \in ExitCodes :
                   LET hydrog_file == Join(args.out_dir, cur.label \o SFX_FINAL)
                       r == add_hydrogens_with_obabel(exe, rc, cur.processed,
                                                      hydrog_file)
                   IN IF r.raised
                      THEN Fail(r.error) /\ cur' = cur
                      ELSE /\ cur' = [cur EXCEPT
                                 !.report = SetKey(@, "add_hydrogens", r.res),
                                 !.processed = Advance(@, r.res, hydrog_file),
                                 !.invoked = @ \cup {Invocation("hydrogens",
                                                     cur.processed, hydrog_file)}]
                           /\ pc' = "convert"
                           /\ UNCHANGED <<reports, idx>>
            ELSE /\ cur' = [cur EXCEPT
                              !.report = SetKey(@, "add_hydrogens_skipped", SKIP_OBABEL)]
                 /\ pc' = "convert"
                 /\ UNCHANGED <<reports, idx>>
       ELSE /\ pc' = "convert"
            /\ UNCHANGED <<cur, reports, idx>>
    /\ UNCHANGED <<args, targets, ready, log, dl, cl, gui>>

\* lines 219-233
Convert ==
    /\ pc = "convert"
    /\ IF args.auto_pdbqt
       THEN IF ready.obabel
            THEN \E exe \in ObabelExes, rc \in ExitCodes :
                   LET pdbqt_file == Join(args.out_dir, cur.label \o SFX_PDBQT)
                       r == convert_to_pdbqt_with_obabel(exe, rc, cur.processed,
                                                         pdbqt_file)
                   IN IF r.raised
                      THEN Fail(r.error) /\ cur' = cur
                      ELSE /\ cur' = [cur EXCEPT
                                 !.report = SetKey(@, "pdbqt", r.res),
                                 !.invoked = @ \cup {Invocation("convert",
                                                     cur.processed, pdbqt_file)}]
                           /\ Done(cur'.report)
            ELSE /\ cur' = [cur EXCEPT
                              !.report = SetKey(@, "pdbqt_skipped", SKIP_OBABEL)]
                 /\ Done(cur'.report)
       ELSE /\ cur' = cur
            /\ Done(cur.report)
    /\ UNCHANGED <<args, targets, ready, log, dl, cl, gui>>

(***************************************************************************)
(* main, lines 239-242: the report file.                                   *)
(***************************************************************************)
Finalize ==
    /\ pc = "resolve"
    /\ idx > Len(targets)
    /\ log' = [writes |-> log.writes + 1, content |-> reports]
    /\ pc' = "finished"
    /\ UNCHANGED <<args, targets, idx, ready, cur, reports, dl, cl, gui>>

Next ==
    \/ ReadTargets
    \/ Probe
    \/ Resolve
    \/ Fetch
    \/ Clean
    \/ Protonate
    \/ Hydrogenate
    \/ Convert
    \/ Finalize

Spec == Init /\ [][Next]_vars

(***************************************************************************)
(* download_pdb on its own: any identifier, any number of retries.         *)
(***************************************************************************)
FetchIds == {T_ID, <<"1","A","B","C">>, <<"2","x","y","z">>,
             <<"4","h","h","b">>, <<"6","L","u","7">>}

InitFetch ==
    /\ pc = "idle"
    /\ args = MkArgs(T_ID, CHOOSE f \in FilterArgs : ~f.remove_waters,
                     FALSE, FALSE, FALSE, None)
    /\ targets = <<>>
    /\ idx = 1
    /\ ready = ReadyIdle
    /\ cur = CurIdle
    /\ reports = <<>>
    /\ log = LogIdle
    /\ cl = ClIdle
    /\ gui = GuiIdle
    /\ \E id \in FetchIds, r \in 0..MaxRetries :
         dl = DownloadCall(id, Join(OUT_DIR, Upper(id) \o EXT_PDB), r)

DownloadStep ==
    /\ dl.status = "running"
    /\ dl' \in DownloadNext(dl)
    /\ UNCHANGED <<pc, args, targets, idx, ready, cur, reports, log, cl, gui>>

NextFetch == DownloadStep

FetchSpec == InitFetch /\ [][NextFetch]_vars

(***************************************************************************)
(* clean_pdb on its own: any input of at most MaxLines lines, any filter.  *)
(***************************************************************************)
InitClean ==
    /\ pc = "idle"
    /\ args = MkArgs(T_ID, CHOOSE f \in FilterArgs : ~f.remove_waters,
                     FALSE, FALSE, FALSE, None)
    /\ targets = <<>>
    /\ idx = 1
    /\ ready = ReadyIdle
    /\ cur = CurIdle
    /\ reports = <<>>
    /\ log = LogIdle
    /\ dl = DlIdle
    /\ gui = GuiIdle
    /\ \E lines \in SeqsUpTo(LineSet, MaxLines), rw \in BOOLEAN, rh \in BOOLEAN,
          kc \in ChainLists, kl \in LigandLists :
         cl = [state |-> "called", lines |-> lines, remove_waters |-> rw,
               remove_hetero |-> rh, keep_chains |-> kc, keep_ligands |-> kl,
               raised |-> FALSE, out |-> <<>>, removed |-> NoRemoved,
               raised2 |-> FALSE, out2 |-> <<>>, removed2 |-> NoRemoved]

CleanReturn ==
    /\ cl.state = "called"
    /\ LET r == clean_pdb(cl.lines, cl.remove_waters, cl.remove_hetero,
                          cl.keep_chains, cl.keep_ligands)
       IN cl' = [cl EXCEPT !.state = "done", !.raised = r.raised, !.out = r.out,
                           !.removed = r.removed]
    /\ UNCHANGED <<pc, args, targets, idx, ready, cur, reports, log, dl, gui>>

\* clean_pdb called again, with the same arguments, on the file it wrote
CleanAgain ==
    /\ cl.state = "done"
    /\ ~cl.raised
    /\ LET r == clean_pdb(cl.out, cl.remove_waters, cl.remove_hetero,
                          cl.keep_chains, cl.keep_ligands)
       IN cl' = [cl EXCEPT !.state = "again", !.raised2 = r.raised, !.out2 = r.out,
                           !.removed2 = r.removed]
    /\ UNCHANGED <<pc, args, targets, idx, ready, cur, reports, log, dl, gui>>

NextClean == CleanReturn \/ CleanAgain

CleanSpec == InitClean /\ [][NextClean]_vars

(***************************************************************************)
(* proteinprep_gui.py: the command line of a run.  A command line is a     *)
(* sequence of tokens, an option name or a value.                          *)
(***************************************************************************)
Opt(name) == [kind |-> "opt", opt |-> name, val |-> <<>>]
Val(v) == [kind |-> "val", opt |-> "", val |-> v]

SYS_EXECUTABLE == <<"p","y","t","h","o","n">>
SCRIPT == <<"p","r","o","t","e","i","n","p","r","e","p",".","p","y">>
Digits == {"0","1","2","3","4","5","6","7","8","9"}

\* float(text) succeeds (line 93)
IsFloat(text) ==
    /\ \E k \in 1..Len(text) : text[k] \in Digits
    /\ \A k \in 1..Len(text) : text[k] \in Digits \cup {"."}
    /\ Cardinality({k \in 1..Len(text) : text[k] = "."}) <= 1
\* str(float(text)) (line 52) of a text of digits with at most one point
StrFloat(text) ==
    IF \E k \in 1..Len(text) : text[k] = "." THEN text ELSE text \o <<".","0">>

\* lines 32-55; the check boxes hand over True or False, never None, so the
\* tests of lines 41 and 43 hold
build_args(pdb, outdir, remove_waters, remove_hetero, keep_chains, add_hydrogens, protonate, ph_value, auto_pdbqt, batch_file) ==
    <<Val(SYS_EXECUTABLE), Val(SCRIPT)>>
    \o (IF Truthy(batch_file) THEN <<Opt("--batch-file"), Val(batch_file.val)>> ELSE <<>>)
    \o <<Val(pdb)>>
    \o (IF Len(outdir) > 0 THEN <<Opt("--out-dir"), Val(outdir)>> ELSE <<>>)
    \o <<Opt(IF remove_waters THEN "--remove-waters" ELSE "--no-remove-waters")>>
    \o <<Opt(IF remove_hetero THEN "--remove-hetero" ELSE "--no-remove-hetero")>>
    \o (IF Len(keep_chains) > 0 THEN <<Opt("--keep-chains"), Val(keep_chains)>> ELSE <<>>)
    \o (IF add_hydrogens THEN <<Opt("--add-hydrogens")>> ELSE <<>>)
    \o (IF protonate
        THEN <<Opt("--protonate")>>
             \o (IF ph_value.some THEN <<Opt("--ph"), Val(StrFloat(ph_value.val))>>
                 ELSE <<>>)
        ELSE <<>>)
    \o (IF auto_pdbqt THEN <<Opt("--auto-pdbqt")>> ELSE <<>>)

\* proteinprep.py lines 131-141: the defaults of main's parameters
CliDefaults ==
    [pdb |-> <<>>, out_dir |-> <<".">>, remove_waters |-> TRUE, remove_hetero |-> TRUE,
     keep_chains |-> None, keep_ligands |-> None, add_hydrogens |-> FALSE,
     protonate |-> FALSE, auto_pdbqt |-> TRUE, batch_file |-> None, ph |-> <<"7",".","4">>]

ValueOptions == {"--out-dir", "--keep-chains", "--keep-ligands", "--batch-file", "--ph"}

\* one option of main applied to the parameters; v is the token after it
ApplyOption(a, name, v) ==
    CASE name = "--out-dir" -> [a EXCEPT !.out_dir = v]
      [] name = "--keep-chains" -> [a EXCEPT !.keep_chains = Some(v)]
      [] name = "--keep-ligands" -> [a EXCEPT !.keep_ligands = Some(v)]
      [] name = "--batch-file" -> [a EXCEPT !.batch_file = Some(v)]
      [] name = "--ph" -> [a EXCEPT !.ph = v]
      [] name = "--remove-waters" -> [a EXCEPT !.remove_waters = TRUE]
      [] name = "--no-remove-waters" -> [a EXCEPT !.remove_waters = FALSE]
      [] name = "--remove-hetero" -> [a EXCEPT !.remove_hetero = TRUE]
      [] name = "--no-remove-hetero" -> [a EXCEPT !.remove_hetero = FALSE]
      [] name = "--add-hydrogens" -> [a EXCEPT !.add_hydrogens = TRUE]
      [] name = "--no-add-hydrogens" -> [a EXCEPT !.add_hydrogens = FALSE]
      [] name = "--protonate" -> [a EXCEPT !.protonate = TRUE]
      [] name = "--no-protonate" -> [a EXCEPT !.protonate = FALSE]
      [] name = "--auto-pdbqt" -> [a EXCEPT !.auto_pdbqt = TRUE]
      [] name = "--no-auto-pdbqt" -> [a EXCEPT !.auto_pdbqt = FALSE]
      [] OTHER -> a

RECURSIVE ParseFrom(_, _, _)
\* the tokens from position k on, applied to the parameters a
ParseFrom(argv, k, a) ==
    IF k > Len(argv) THEN a
    ELSE IF argv[k].kind = "val"
    THEN ParseFrom(argv, k + 1, [a EXCEPT !.pdb = argv[k].val])
    ELSE IF argv[k].opt \in ValueOptions /\ k < Len(argv)
    THEN ParseFrom(argv, k + 2, ApplyOption(a, argv[k].opt, argv[k + 1].val))
    ELSE ParseFrom(argv, k + 1, ApplyOption(a, argv[k].opt, <<>>))

\* the parameters main runs with for the command line argv (argv[1] is the
\* interpreter, argv[2] the script)
ParseCli(argv) == ParseFrom(argv, 3, CliDefaults)

(***************************************************************************)
(* proteinprep_gui.py: the event loop of main and the worker thread.       *)
(* gui.queue holds the events written by write_event_value and not yet     *)
(* read, gui.emitted every event written and gui.handled every event read; *)
(* gui.procs is the set of runs whose subprocess is alive.                 *)
(***************************************************************************)
Event(key, run, text, rc) == [key |-> key, run |-> run, text |-> text, rc |-> rc]

\* what the window's inputs may hold when Run is pressed
GuiValues ==
    {[pdb |-> t.pdb, batch |-> t.batch, chains |-> t.chains,
      waters |-> w, hetero |-> h, hydrog |-> y, prot |-> p, pdbqt |-> q,
      ph |-> ph, out |-> <<".">>] :
        t \in {[pdb |-> T_ID, batch |-> <<>>, chains |-> <<>>],
               [pdb |-> <<>>, batch |-> BATCH_PATH, chains |-> ARG_CHAINS],
               [pdb |-> <<>>, batch |-> <<" ">>, chains |-> <<>>]},
        w \in BOOLEAN, h \in BOOLEAN, y \in BOOLEAN, p \in BOOLEAN, q \in BOOLEAN,
        ph \in {<<"7",".","4">>, <<"x">>}}

InitGui ==
    /\ pc = "idle"
    /\ args = MkArgs(T_ID, CHOOSE f \in FilterArgs : ~f.remove_waters,
                     FALSE, FALSE, FALSE, None)
    /\ targets = <<>>
    /\ idx = 1
    /\ ready = ReadyIdle
    /\ cur = CurIdle
    /\ reports = <<>>
    /\ log = LogIdle
    /\ dl = DlIdle
    /\ cl = ClIdle
    /\ gui = [GuiIdle EXCEPT !.open = TRUE, !.runEnabled = TRUE]

GuiFrame == UNCHANGED <<pc, args, targets, idx, ready, cur, reports, log, dl, cl>>

\* lines 83-114: the Run button, which Tk delivers only while it is enabled
GuiRun ==
    /\ gui.open /\ gui.runEnabled /\ gui.runs < MaxRuns
    /\ \E v \in GuiValues :
         LET pdb == Strip(v.pdb)
             batch == Strip(v.batch)
             outdir == IF Strip(v.out) = <<>> THEN <<".">> ELSE Strip(v.out)
             ph_value == Strip(v.ph)
         IN IF pdb = <<>> /\ batch = <<>>
            THEN gui' = [gui EXCEPT !.popup = "no target"]
            ELSE IF ~IsFloat(ph_value)
            THEN gui' = [gui EXCEPT !.popup = "bad ph"]
            ELSE gui' = [gui EXCEPT
                     !.values = v,
                     !.argv = build_args(IF pdb # <<>> THEN pdb ELSE batch, outdir,
                                         v.waters, v.hetero, Strip(v.chains),
                                         v.hydrog, v.prot,
                                         IF v.prot THEN Some(ph_value) ELSE None,
                                         v.pdbqt,
                                         IF batch # <<>> THEN Some(batch) ELSE None),
                     !.runEnabled = FALSE,
                     !.runs = @ + 1,
                     !.worker = "start",
                     !.outs = 0,
                     !.popup = ""]
    /\ GuiFrame

\* line 23: subprocess.Popen starts the pipeline, or raises
WorkerPopen ==
    /\ gui.open /\ gui.worker = "start"
    /\ \E ok \in BOOLEAN :
         gui' = IF ok
                THEN [gui EXCEPT !.worker = "reading", !.procs = @ \cup {gui.runs}]
                ELSE [gui EXCEPT !.worker = "raised"]
    /\ GuiFrame

\* lines 24-25: one line of the subprocess's output
WorkerLine ==
    /\ gui.open /\ gui.worker = "reading" /\ gui.outs < MaxOut
    /\ LET e == Event("-OUT-", gui.runs, "line", 0)
       IN gui' = [gui EXCEPT !.outs = @ + 1, !.queue = Append(@, e),
                             !.emitted = Append(@, e)]
    /\ GuiFrame

\* line 24: reading the pipe raises (text that does not decode)
WorkerReadRaises ==
    /\ gui.open /\ gui.worker = "reading"
    /\ gui' = [gui EXCEPT !.worker = "raised"]
    /\ GuiFrame

\* lines 24, 26-27: end of the output, proc.wait() returns, -DONE-
WorkerDone ==
    /\ gui.open /\ gui.worker = "reading"
    /\ \E x \in gui.exits :
         /\ x.run = gui.runs
         /\ LET e == Event("-DONE-", gui.runs, "", x.rc)
            IN gui' = [gui EXCEPT !.worker = "finished", !.queue = Append(@, e),
                                  !.emitted = Append(@, e)]
    /\ GuiFrame

\* lines 28-30: the handler of the worker's try
WorkerExcept ==
    /\ gui.open /\ gui.worker = "raised"
    /\ LET e1 == Event("-OUT-", gui.runs, "[ERROR]", 0)
           e2 == Event("-DONE-", gui.runs, "", 2)
       IN gui' = [gui EXCEPT !.worker = "finished",
                             !.queue = Append(Append(@, e1), e2),
                             !.emitted = Append(Append(@, e1), e2)]
    /\ GuiFrame

\* the pipeline subprocess of run r ends, with exit code 0 or 1
ProcExit ==
    /\ \E r \in gui.procs, rc \in ExitCodes :
         gui' = [gui EXCEPT !.procs = @ \ {r}, !.exits = @ \cup {[run |-> r, rc |-> rc]}]
    /\ GuiFrame

\* lines 116-117
GuiOut ==
    /\ gui.open /\ gui.queue # <<>> /\ Head(gui.queue).key = "-OUT-"
    /\ gui' = [gui EXCEPT !.queue = Tail(@), !.handled = Append(@, Head(gui.queue))]
    /\ GuiFrame

\* lines 119-125
GuiDone ==
    /\ gui.open /\ gui.queue # <<>> /\ Head(gui.queue).key = "-DONE-"
    /\ gui' = [gui EXCEPT !.queue = Tail(@), !.handled = Append(@, Head(gui.queue)),
                          !.runEnabled = TRUE]
    /\ GuiFrame

\* lines 80-81, 127: the window is closed; the daemon worker ends with it
GuiExit ==
    /\ gui.open
    /\ gui' = [gui EXCEPT !.open = FALSE]
    /\ GuiFrame

NextGui ==
    \/ GuiRun
    \/ WorkerPopen
    \/ WorkerLine
    \/ WorkerReadRaises
    \/ WorkerDone
    \/ WorkerExcept
    \/ ProcExit
    \/ GuiOut
    \/ GuiDone
    \/ GuiExit

GuiSpec == InitGui /\ [][NextGui]_vars

(***************************************************************************)
(* Properties.                                                             *)
(***************************************************************************)

(* C7: download_pdb with retries = R makes at most R network calls, one    *)
(* per attempt; it stops at the first successful attempt and writes the    *)
(* destination file exactly once; it raises exactly when all R attempts    *)
(* have failed, and then has written nothing; while it runs it can always  *)
(* take a step, so it ends after at most R attempts.                       *)
C7_FetchBounded ==
    dl.status # "idle" =>
        /\ dl.calls <= dl.retries
        /\ dl.calls = dl.sleeps + dl.writes
        /\ dl.writes = (IF dl.status = "returned" THEN 1 ELSE 0)
        /\ dl.status = "running" => dl.calls = dl.attempt - 1 /\ ENABLED DownloadStep
        /\ dl.status = "returned" => dl.calls = dl.attempt /\ dl.content \in FileSet
        /\ dl.status = "raised" => dl.writes = 0 /\ dl.content = <<>>
        /\ dl.status \in {"returned", "raised"} =>
               (dl.status = "raised" <=> dl.sleeps = dl.retries)

\* all three of three attempts failed, and the download error was raised
C7_Witness ==
    dl.status = "raised" /\ dl.retries = 3 /\ dl.calls = 3 /\ dl.writes = 0

(* C9: the output of clean_pdb is the input with exactly the lines removed *)
(* that are not of a retained record kind or that one of the predicates    *)
(* matches: same order, lines unchanged.  The predicates are tried in the  *)
(* order chain, water, heteroatom: each counter counts the lines whose     *)
(* first matching predicate is its own.                                    *)
C9_ChainExcluded(line) ==
    /\ Truthy(cl.keep_chains)
    /\ ChainOf(line) # <<>>
    /\ \A k \in 1..Len(cl.keep_chains.val) :
          Upper(Strip(cl.keep_chains.val[k])) # Upper(ChainOf(line))
C9_WaterExcluded(line) ==
    cl.remove_waters /\ ResnameOf(line) \in {WaterNames[k] : k \in 1..Len(WaterNames)}
C9_HeteroExcluded(line) ==
    /\ cl.remove_hetero
    /\ RecOf(line) = REC_HETATM
    /\ ~(/\ Truthy(cl.keep_ligands)
         /\ \E k \in 1..Len(cl.keep_ligands.val) :
               Upper(Strip(cl.keep_ligands.val[k])) = ResnameOf(line))
C9_Kept(line) ==
    /\ IsCandidate(line)
    /\ ~C9_ChainExcluded(line)
    /\ ~C9_WaterExcluded(line)
    /\ ~C9_HeteroExcluded(line)
C9_Count(P(_)) == Cardinality({k \in 1..Len(cl.lines) : P(cl.lines[k])})
C9_CleanIsFilter ==
    cl.state = "done" =>
        LET ByChain(l) == IsCandidate(l) /\ C9_ChainExcluded(l)
            ByWater(l) == IsCandidate(l) /\ ~C9_ChainExcluded(l) /\ C9_WaterExcluded(l)
            ByHetero(l) == /\ IsCandidate(l) /\ ~C9_ChainExcluded(l)
                           /\ ~C9_WaterExcluded(l) /\ C9_HeteroExcluded(l)
        IN /\ cl.out = SelectSeq(cl.lines, C9_Kept)
           /\ cl.removed.skipped_chains = C9_Count(ByChain)
           /\ cl.removed.waters = C9_Count(ByWater)
           /\ cl.removed.hetero_residues = C9_Count(ByHetero)

\* a water of an excluded chain ahead of a kept atom: one line written, the
\* water counted as a skipped chain
C9_Witness ==
    /\ cl.state = "done"
    /\ cl.lines = <<L_WAT_b, L_ALA_A>>
    /\ cl.remove_waters
    /\ cl.out = <<L_ALA_A>>
    /\ cl.removed = [waters |-> 0, hetero_residues |-> 0, skipped_chains |-> 1]

(***************************************************************************)
(* The batch loop.  When an iteration has just ended (its entry appended,  *)
(* the next one not begun) cur and dl still hold what it did.              *)
(***************************************************************************)
InLoop == pc \in {"resolve", "fetch", "clean", "protonate", "hydrogenate", "convert"}
Ended == pc \in {"resolve", "finished"} /\ idx > 1
LastEntry == reports[idx - 1]
IsError(e) == Has(e, "error")
ErrorShape(e) == DOMAIN e = {"input", "error"}
RetrievalFailed == dl.status = "raised"
CleanFailed == cur.cleanRan /\ Len(cur.out) = 0
CleanSucceeded == cur.cleanRan /\ Len(cur.out) > 0
FinalFile == Join(args.out_dir, cur.label \o SFX_FINAL)
Ran(tool) == \E inv \in cur.invoked : inv.tool = tool

(* C1: the report has one entry per target, in target order; a target that *)
(* fails (retrieval exhausted, empty clean output) gets an error entry of  *)
(* input and error alone and the loop goes on; every other target's entry  *)
(* carries the cleaned path and the removal counters and no error.         *)
C1_OneEntryPerTarget ==
    /\ InLoop => Len(reports) = idx - 1
    /\ \A i \in 1..Len(reports) : reports[i].input = targets[i]
    /\ pc = "finished" => log.content = reports /\ Len(log.content) = Len(targets)
    /\ Ended =>
         IF RetrievalFailed \/ CleanFailed
         THEN ErrorShape(LastEntry)
         ELSE /\ ~IsError(LastEntry)
              /\ Has(LastEntry, "cleaned") /\ LastEntry.cleaned = cur.cleaned
              /\ Has(LastEntry, "removed")

(* C2, as claimed: every invocation ends with the report written exactly   *)
(* once, after the last target.                                            *)
C2_EveryRunWritesReport ==
    /\ log.writes <= 1
    /\ log.writes = 1 => idx = Len(targets) + 1
    /\ pc \in {"finished", "exit1"} => log.writes = 1

(* C2, amended: an invocation that is not stopped by a missing batch file  *)
(* writes the report exactly once, after the last target has ended, with   *)
(* one entry per target, also when every target failed; no write happens   *)
(* between targets; the run can go on until it has written the report (at  *)
(* the clean stage, because a source is there to read).  An invocation     *)
(* whose batch file is missing exits without writing a report.             *)
C2_ReportOnce ==
    /\ log.writes <= 1
    /\ log.writes = 1 <=> pc = "finished"
    /\ pc = "finished" =>
         /\ idx = Len(targets) + 1
         /\ log.content = reports
         /\ Len(log.content) = Len(targets)
    /\ pc = "exit1" => Truthy(args.batch_file) /\ log.writes = 0 /\ reports = <<>>
    /\ pc \notin {"finished", "exit1"} =>
         \/ pc = "clean" /\ SourceChoices # {}
         \/ ENABLED (ReadTargets \/ Probe \/ Resolve \/ Fetch \/ Protonate
                      \/ Hydrogenate \/ Convert \/ Finalize)

\* a batch of two targets that both failed, and the report written
C2_Witness ==
    /\ pc = "finished"
    /\ Len(targets) = 2
    /\ \A i \in 1..2 : IsError(log.content[i])
    /\ log.writes = 1

(* C3: with protonate and add_hydrogens both requested the hydrogen tool   *)
(* is never run, and the entry of a target that went through the stages    *)
(* holds a skip record for the hydrogen stage.                             *)
C3_HydrogenSkipRecorded ==
    (args.protonate /\ args.add_hydrogens) =>
        /\ ~Ran("hydrogens")
        /\ ~Has(cur.report, "add_hydrogens")
        /\ (Ended /\ ~IsError(LastEntry)) => Has(LastEntry, "add_hydrogens_skipped")

(* C4: a protonation or hydrogen tool that was run leaves its command,     *)
(* exit code and captured text in the target's entry; the iteration goes   *)
(* on to the conversion stage; "processed" is the stage's output file when *)
(* the exit code is 0 and stays the cleaned file otherwise, and that file  *)
(* is the one handed to the conversion tool.                               *)
C4_StageResult ==
    IF Has(cur.report, "protonate") THEN <<cur.report.protonate>>
    ELSE IF Has(cur.report, "add_hydrogens") THEN <<cur.report.add_hydrogens>>
    ELSE <<>>
C4_Expected ==
    IF C4_StageResult # <<>> /\ C4_StageResult[1].rc = 0 THEN FinalFile ELSE cur.cleaned
C5_SkipRecorded ==
    LET through == Ended /\ CleanSucceeded
    IN /\ (args.protonate /\ ready.probed /\ ~ready.pdb2pqr) =>
            /\ ~Ran("pdb2pqr")
            /\ through => ~IsError(LastEntry) /\ Has(LastEntry, "protonate_skipped")
       /\ (args.add_hydrogens /\ ready.probed /\ ~ready.obabel) =>
            /\ ~Ran("hydrogens")
            /\ through => ~IsError(LastEntry) /\ Has(LastEntry, "add_hydrogens_skipped")
       /\ (args.auto_pdbqt /\ ready.probed /\ ~ready.obabel) =>
            /\ ~Ran("convert")
            /\ through => ~IsError(LastEntry) /\ Has(LastEntry, "pdbqt_skipped")

(* C6: the stages of a target run in the order resolve, clean, protonate   *)
(* or hydrogenate or skip, convert; once clean has succeeded the target's  *)
(* entry is never an error entry.                                          *)
C6_NoFailureAfterClean ==
    /\ pc = "fetch" => dl.status = "running" /\ ~cur.cleanRan
    /\ pc = "clean" => dl.status \in {"idle", "returned"} /\ ~cur.cleanRan
    /\ pc \in {"protonate", "hydrogenate", "convert"} => CleanSucceeded
    /\ pc \in {"protonate", "hydrogenate"} => ~Ran("convert")
    /\ pc = "protonate" => cur.invoked = {}
    /\ (Ended /\ CleanSucceeded) => ~IsError(LastEntry)

(* C8: a retrieval that fails on attempts 1 and 2 and succeeds on attempt  *)
(* 3 is followed by the clean stage, and when cleaning retains a record    *)
(* the target's entry is not an error entry.                               *)
C8_ThirdAttempt == dl.status = "returned" /\ dl.sleeps = 2 /\ dl.calls = 3
C8_RetrySucceeds ==
    C8_ThirdAttempt =>
        /\ pc = "clean" \/ cur.cleanRan
        /\ (Ended /\ CleanSucceeded) => ~IsError(LastEntry)

(* C10: clean_pdb raises exactly when it has written no line, as it does   *)
(* for an input of water and heteroatom records only with both removals on *)
(* and no kept ligand among them; in the batch loop the failure appends    *)
(* one error entry, for that target, leaves the other entries as they are  *)
(* and goes on with the next target.                                       *)
C10_OnlyWaterHet(lines) ==
    /\ Len(lines) > 0
    /\ \A k \in 1..Len(lines) :
          /\ RecOf(lines[k]) = REC_HETATM \/ InList(ResnameOf(lines[k]), WaterNames)
          /\ ~InList(ResnameOf(lines[k]), NormLigands(keep_lig_list))
C10_EmptyFails ==
    [][ (pc = "clean" /\ pc' # "clean") =>
          /\ cur'.cleanRan
          /\ IF Len(cur'.out) = 0
             THEN /\ reports' = Append(reports,
                        SetKey(SetKey(EmptyDict, "input", targets[idx]),
                               "error", ERR_EMPTY))
                  /\ pc' = "resolve" /\ idx' = idx + 1
             ELSE /\ reports' = reports
                  /\ pc' = "protonate" /\ idx' = idx
          /\ (C10_OnlyWaterHet(cur'.src) /\ args.remove_waters /\ args.remove_hetero)
                => Len(cur'.out) = 0 ]_vars

\* the first of two targets failed in clean_pdb, the second one did not
C10_Witness ==
    /\ pc = "finished"
    /\ Len(reports) = 2
    /\ IsError(reports[1]) /\ reports[1].error = ERR_EMPTY
    /\ ~IsError(reports[2]) /\ Has(reports[2], "removed")

(***************************************************************************)
(* clean_pdb: the predicates of the claims below, read off the columns of  *)
(* a line and the arguments of the call.                                   *)
(***************************************************************************)
HEM == <<"H","E","M">>
Col(line, a, b) == IF Len(line) >= b THEN Upper(Strip(SubSeq(line, a, b))) ELSE <<>>
IsHetatm(line) == StartsWith(line, REC_HETATM)
IsAtom(line) == StartsWith(line, REC_ATOM)
IsWaterName(line) == Col(line, 18, 20) \in {<<"H","O","H">>, <<"H","2","O">>, <<"W","A","T">>}
Written(line) == \E k \in 1..Len(cl.out) : cl.out[k] = line
KeptLigandNames ==
    IF Truthy(cl.keep_ligands)
    THEN {Upper(Strip(cl.keep_ligands.val[k])) : k \in 1..Len(cl.keep_ligands.val)}
    ELSE {}
KeptChainNames ==
    IF Truthy(cl.keep_chains)
    THEN {Upper(Strip(cl.keep_chains.val[k])) : k \in 1..Len(cl.keep_chains.val)}
    ELSE {}
DropsByChain(line) ==
    Truthy(cl.keep_chains) /\ Col(line, 22, 22) # <<>> /\ Col(line, 22, 22) \notin KeptChainNames
DropsByWater(line) == cl.remove_waters /\ IsWaterName(line)
DropsByHetero(line) ==
    cl.remove_hetero /\ IsHetatm(line) /\ Col(line, 18, 20) \notin KeptLigandNames
InputLines == {cl.lines[k] : k \in 1..Len(cl.lines)}

(* C11: with remove_hetero on, keep_ligands = {HEM} and no chain list,     *)
(* every HETATM line named HEM is written and every HETATM line of another *)
(* name is not; with no chain list an ATOM line is dropped by the water    *)
(* test alone, whatever the ligand list, and with remove_hetero off no     *)
(* line is dropped or counted as a heteroatom.                             *)
C11_KeepListedLigand ==
    (cl.state = "done" /\ ~Truthy(cl.keep_chains)) =>
        /\ (cl.remove_hetero /\ cl.keep_ligands = Some(<<HEM>>)) =>
              \A l \in InputLines :
                 IsHetatm(l) => (Written(l) <=> Col(l, 18, 20) = HEM)
        /\ \A l \in InputLines : IsAtom(l) => (Written(l) <=> ~DropsByWater(l))
        /\ ~cl.remove_hetero =>
              /\ cl.removed.hetero_residues = 0
              /\ \A l \in InputLines : IsHetatm(l) => (Written(l) <=> ~DropsByWater(l))

\* a heme and a zinc ion, ligand list HEM: the heme is written, the zinc not
C11_Witness ==
    /\ cl.state = "done"
    /\ cl.lines = <<L_HEM_A, L_ZN_b>>
    /\ cl.remove_hetero /\ cl.keep_ligands = Some(<<HEM>>) /\ cl.keep_chains = None
    /\ cl.out = <<L_HEM_A>>
    /\ cl.removed.hetero_residues = 1

(* C12: with no chain list clean_pdb drops no line for its chain: the      *)
(* skipped_chains counter is 0 and every candidate line that is not        *)
(* written matches the water or the heteroatom predicate.                  *)
C12_NoChainRemoval ==
    (cl.state = "done" /\ ~Truthy(cl.keep_chains)) =>
        /\ cl.removed.skipped_chains = 0
        /\ \A l \in InputLines :
              (IsCandidate(l) /\ ~Written(l)) => (DropsByWater(l) \/ DropsByHetero(l))

\* chain b is not chain A, and with no chain list its atom is written
C12_Witness ==
    /\ cl.state = "done"
    /\ cl.keep_chains = None
    /\ cl.lines = <<L_GLY_b, L_WAT_b>>
    /\ cl.remove_waters
    /\ cl.out = <<L_GLY_b>>
    /\ cl.removed = [waters |-> 1, hetero_residues |-> 0, skipped_chains |-> 0]

(* C13: clean_pdb run again with the same arguments on the file it wrote   *)
(* does not raise, writes the same lines and counts no removal.            *)
C13_Idempotent ==
    cl.state = "again" =>
        /\ ~cl.raised2
        /\ cl.out2 = cl.out
        /\ cl.removed2 = NoRemoved

\* the first run dropped a water, the second run found nothing to drop
C13_Witness ==
    /\ cl.state = "again"
    /\ cl.lines = <<L_HOH_A, L_ALA_A>>
    /\ cl.removed.waters = 1
    /\ cl.out2 = <<L_ALA_A>>

(* C18: every candidate line that is dropped is counted once, under the    *)
(* first predicate that matches it in the order chain, water, heteroatom;  *)
(* lines written plus the three counters is the number of candidate lines, *)
(* and lines of other record kinds are neither written nor counted.        *)
C18_CountersAddUp ==
    cl.state = "done" =>
        LET Positions(P(_)) == {k \in 1..Len(cl.lines) : P(cl.lines[k])}
            First(l) == IsCandidate(l) /\ DropsByChain(l)
            Second(l) == IsCandidate(l) /\ ~DropsByChain(l) /\ DropsByWater(l)
            Third(l) == /\ IsCandidate(l) /\ ~DropsByChain(l) /\ ~DropsByWater(l)
                        /\ DropsByHetero(l)
        IN /\ Len(cl.out) + cl.removed.waters + cl.removed.hetero_residues
                + cl.removed.skipped_chains = Cardinality(Positions(IsCandidate))
           /\ cl.removed.skipped_chains = Cardinality(Positions(First))
           /\ cl.removed.waters = Cardinality(Positions(Second))
           /\ cl.removed.hetero_residues = Cardinality(Positions(Third))
           /\ \A l \in InputLines : ~IsCandidate(l) => ~Written(l)

\* a HETATM water with both removals on is counted as a water only
C18_Witness ==
    /\ cl.state = "done"
    /\ cl.lines = <<L_HOH_A, L_ALA_A>>
    /\ cl.remove_waters /\ cl.remove_hetero
    /\ cl.keep_chains = Some(<< <<"A">> >>)
    /\ cl.removed = [waters |-> 1, hetero_residues |-> 0, skipped_chains |-> 0]
    /\ Len(cl.out) = 1

(* C19: when clean_pdb returns without raising, the file it wrote holds at *)
(* least one ATOM or HETATM line.                                          *)
C19_AtomWritten ==
    (cl.state = "done" /\ ~cl.raised) =>
        \E k \in 1..Len(cl.out) : IsAtom(cl.out[k]) \/ IsHetatm(cl.out[k])

(* C14: download_pdb is called for a target exactly when the target is not *)
(* an existing path; an existing path is the file clean_pdb reads and the  *)
(* "fetched" of the entry, with no network call; a target whose download   *)
(* raised gets its error entry with clean_pdb and the tools not run.       *)
C14_ResolveRule ==
    /\ pc \in {"fetch", "clean", "protonate", "hydrogenate", "convert"} =>
          LET t == targets[idx]
          IN /\ (t \in ExistingPaths) <=> dl.status = "idle"
             /\ t \in ExistingPaths => cur.fetched = t /\ dl.calls = 0
             /\ t \notin ExistingPaths =>
                   /\ dl.pdb_id = Upper(t)
                   /\ cur.fetched = dl.out_path
                   /\ pc # "fetch" => dl.status = "returned" /\ dl.writes = 1
    /\ Ended =>
          LET t == targets[idx - 1]
          IN /\ RetrievalFailed =>
                   /\ t \notin ExistingPaths
                   /\ ~cur.cleanRan /\ cur.invoked = {} /\ cur.report = EmptyDict
                   /\ ErrorShape(LastEntry) /\ LastEntry.input = t
                   /\ LastEntry.error = ERR_DOWNLOAD
             /\ (t \in ExistingPaths /\ ~IsError(LastEntry)) =>
                   LastEntry.fetched = t /\ dl.calls = 0

\* a local file went through, then the download of an identifier failed
C14_Witness ==
    /\ Ended /\ RetrievalFailed /\ dl.calls = 3
    /\ Len(reports) = 2
    /\ targets = <<T_PATH, T_ID>>
    /\ ~IsError(reports[1]) /\ reports[1].fetched = T_PATH
    /\ IsError(reports[2])

(* C15: an invocation whose batch file does not exist ends with exit code  *)
(* 1 before any probe or install attempt: no target list, no iteration of  *)
(* the loop, no download, no tool run, no report entry, no report file,    *)
(* and nothing further happens.                                            *)
C15_MissingBatchIsFatal ==
    pc = "exit1" =>
        /\ Truthy(args.batch_file)
        /\ ~ready.probed /\ ready.installs = 0
        /\ targets = <<>> /\ idx = 1
        /\ cur = CurIdle /\ dl = DlIdle
        /\ reports = <<>> /\ log = LogIdle
        /\ ~ENABLED (ReadTargets \/ Probe \/ Resolve \/ Fetch \/ Protonate
                      \/ Hydrogenate \/ Convert \/ Finalize)

\* the run that would have needed the install attempt ended before it
C15_Witness ==
    /\ pc = "exit1"
    /\ args.add_hydrogens /\ args.auto_pdbqt
    /\ ready = ReadyIdle

\* the files an entry of the report says its target wrote
WrittenFiles(e) ==
    IF IsError(e) THEN {}
    ELSE {e.cleaned}
         \cup (IF e.fetched # e.input THEN {e.fetched} ELSE {})
         \cup (IF Has(e, "protonate") THEN {e.protonate.cmd[5]} ELSE {})
         \cup (IF Has(e, "add_hydrogens") THEN {e.add_hydrogens.cmd[4]} ELSE {})
         \cup (IF Has(e, "pdbqt") THEN {e.pdbqt.cmd[4]} ELSE {})

(* C16: the files written for two entries at different positions of the    *)
(* target list are different files.                                        *)
C16_DisjointOutputs ==
    \A i \in 1..Len(reports), j \in 1..Len(reports) :
        i < j => WrittenFiles(reports[i]) \cap WrittenFiles(reports[j]) = {}

(* C17: the command line build_args produces makes main run with each of   *)
(* its toggles (remove waters, remove heteroatoms, add hydrogens,          *)
(* protonate, convert) equal to the state of the GUI's check box.          *)
C17_TogglesPreserved ==
    gui.runs > 0 =>
        LET a == ParseCli(gui.argv)
            v == gui.values
        IN /\ a.remove_waters = v.waters
           /\ a.remove_hetero = v.hetero
           /\ a.add_hydrogens = v.hydrog
           /\ a.protonate = v.prot
           /\ a.auto_pdbqt = v.pdbqt

\* the events written for run r, in the order they were written
EventsOf(r) == LET OfRun(e) == e.run = r IN SelectSeq(gui.emitted, OfRun)
DoneCount(r) ==
    Cardinality({k \in 1..Len(EventsOf(r)) : EventsOf(r)[k].key = "-DONE-"})

\* Run is disabled from the start of a run until its -DONE- is handled, a
\* worker writes one -DONE-, as its last event, and the events are read in
\* the order they were written
C20_DoneOnce ==
    /\ gui.runEnabled => gui.worker \in {"none", "finished"} /\ gui.queue = <<>>
    /\ gui.worker \in {"start", "reading", "raised"} => ~gui.runEnabled
    /\ gui.handled \o gui.queue = gui.emitted
    /\ \A r \in 1..gui.runs :
         /\ DoneCount(r) <= 1
         /\ DoneCount(r) = 1 =>
               EventsOf(r)[Len(EventsOf(r))].key = "-DONE-"
         /\ (r < gui.runs \/ gui.worker = "finished") <=> DoneCount(r) = 1
    /\ (gui.handled # <<>> /\ gui.handled[Len(gui.handled)].key = "-DONE-"
          /\ gui.handled[Len(gui.handled)].run = gui.runs) => gui.runEnabled

(* C20: at most one subprocess started by the GUI is alive at a time; Run  *)
(* is disabled from the start of a run until its -DONE- is handled; each   *)
(* worker writes exactly one -DONE-, after all its -OUT- events, also when *)
(* Popen or the read raises; handling -DONE- enables Run again.            *)
C20_RunProtocol ==
    /\ Cardinality(gui.procs) <= 1
    /\ C20_DoneOnce

====
